---- MODULE Spec2Model ----
\* Model of src/src/entity_linking/entity_linker.py (class Entity_Linker):
\* query_entities(), dictionary_matcher() and entities(), with the Solr index
\* as an environment that answers each request with a response or a failure.
\*
\* A Python str is a sequence of one-character strings (so that lower() can be
\* computed), a Solr multi-valued field is a sequence of such strings, a Solr
\* document is a record whose DOMAIN is the set of fields present, and a Python
\* dict keyed by strings is a function whose DOMAIN is its key set.
EXTENDS Integers, Sequences, FiniteSets, TLC

VARIABLES
    pc,                    \* position of the call in progress
    arg,                   \* arguments of the call in progress
    i,                     \* loop iterations completed (queries or taggers)
    normalized_entities,   \* the local map of the call in progress
    requests,              \* requests sent to the index during the call
    received,              \* what the index answered to each request
    stderr,                \* taggers reported on sys.stderr during the call
    result,                \* the map handed back to the caller
    dm_default,            \* the dict object that is dictionary_matcher's default normalized_entities
    rec,                   \* record normalisation: the index record
    qstr,                  \* record normalisation: the query string
    resolved               \* record normalisation: the outcome

vars == <<pc, arg, i, normalized_entities, requests, received, stderr, result,
          dm_default, rec, qstr, resolved>>

-----------------------------------------------------------------------------
\* Bounds of the model.

MaxDocs == 2       \* documents in one index response
MaxTaggers == 2    \* taggers in the taggers argument
MaxQueries == 2    \* keys in the queries argument
MaxFields == 2     \* non-label fields present in a sampled record

-----------------------------------------------------------------------------
\* Strings.

EmptyMap == [k \in {} |-> k]    \* {}
EmptyStr == <<>>           \* ""

\* str.lower() on one character of the sampled alphabet.
LowerChar(c) ==
    CASE c = "P" -> "p"
      [] c = "R" -> "r"
      [] OTHER -> c

\* str.lower()
Lower(s) == [k \in 1..Len(s) |-> LowerChar(s[k])]

\* Python truth value of a label: None and "" are false, any other str true.
\* None never leaves the fallback chain, so it is carried as EmptyStr.
Truthy(label) == label # EmptyStr

-----------------------------------------------------------------------------
\* Entity_Linker.fields

fields == << "id", "score", "type_ss", "label_ss", "label_txt",
             "preferred_label_s", "preferred_label_txt",
             "skos_prefLabel_ss", "skos_prefLabel_txt",
             "skos_altLabel_ss", "skos_altLabel_txt",
             "skos_hiddenLabel_ss", "skos_hiddenLabel_txt" >>

\* isinstance(values, list): the index returns its multi-valued fields
\* (*_ss, *_txt) as lists and id, score, *_s as scalars.
IsList(field) == field \notin {"id", "score", "preferred_label_s"}

-----------------------------------------------------------------------------
\* Label fallback, lines 89-107 and 180-198. The outcome is
\* [exc |-> "none", label |-> str] or [exc |-> the exception raised].

Ok(label) == [exc |-> "none", label |-> label]
Raise(e) == [exc |-> e, label |-> EmptyStr]

\* if not label: if field in record: label = record[field][0]
FirstOf(prev, record, field) ==
    IF prev.exc # "none" \/ Truthy(prev.label) THEN prev
    ELSE IF field \in DOMAIN record
         THEN IF record[field] = <<>> THEN Raise("IndexError")
              ELSE Ok(record[field][1])
         ELSE prev

Label(record) ==
    LET l1 == IF "preferred_label_s" \in DOMAIN record
              THEN Ok(record.preferred_label_s) ELSE Ok(EmptyStr)
        l2 == FirstOf(l1, record, "skos_prefLabel_ss")
        l3 == FirstOf(l2, record, "label_ss")
        l4 == FirstOf(l3, record, "skos_altLabel_ss")
    IN  IF l4.exc # "none" \/ Truthy(l4.label) THEN l4
        ELSE IF "id" \in DOMAIN record THEN Ok(record.id)
             ELSE Raise("KeyError")

\* types = [] ; if 'type_ss' in record: types = record['type_ss']
Types(record) == IF "type_ss" \in DOMAIN record THEN record.type_ss ELSE <<>>

\* Lines 113-124: the scan of self.fields for a value equal to the query.
ValuesOf(record, field) ==
    IF IsList(field) THEN {record[field][k] : k \in 1..Len(record[field])}
    ELSE {record[field]}

MatchCaseSensitive(record, query) ==
    \E n \in 1..Len(fields) :
        /\ fields[n] \in DOMAIN record
        /\ fields[n] # "score"
        /\ \E value \in ValuesOf(record, fields[n]) : value = query

Match(record, query) ==
    \E n \in 1..Len(fields) :
        /\ fields[n] \in DOMAIN record
        /\ fields[n] # "score"
        /\ \E value \in ValuesOf(record, fields[n]) : Lower(value) = Lower(query)


-----------------------------------------------------------------------------
\* Python dict operations.

\* d[key] = value
Put(d, key, value) ==
    [k \in DOMAIN d \cup {key} |-> IF k = key THEN value ELSE d[k]]

-----------------------------------------------------------------------------
\* The index. A response is [kind, docs, numFound]: the request raised in
\* transport, its body was no JSON, its JSON had no response.docs, or it
\* carried the documents docs out of numFound hits.

None == <<"N", "o", "n", "e">>     \* the None of an absent text argument
Text == <<"P">>
E1 == <<"e", "1">>
E2 == <<"e", "2">>
Query == <<"p">>

Failure(kind) == [kind |-> kind, docs |-> <<>>, numFound |-> 0]
Failures == {Failure("transport"), Failure("undecodable"), Failure("malformed")}

SeqsUpTo(S, n) == UNION {[1..m -> S] : m \in 0..n}

Min(a, b) == IF a < b THEN a ELSE b

\* Documents of the entities index, as the select handler returns them.
SearchDocs ==
    { [id |-> E1, score |-> 2, preferred_label_s |-> <<"P">>],
      [id |-> E2, score |-> 1, label_ss |-> << <<"P", "r">> >>] }

\* The select handler honours rows: of its hits it returns the first rows.
SearchAnswers(rows) ==
    Failures \cup
    { [kind |-> "docs", docs |-> SubSeq(hits, 1, Min(rows, Len(hits))),
       numFound |-> Len(hits)] : hits \in SeqsUpTo(SearchDocs, MaxDocs) }

\* Documents as a tagger handler returns them; the last one lacks its id.
TagDocs ==
    { [id |-> E1, preferred_label_s |-> <<"P">>],
      [id |-> E1, label_ss |-> << <<"p">> >>, type_ss |-> << <<"t">> >>],
      [id |-> E2],
      [preferred_label_s |-> <<"P">>] }

TagAnswers ==
    Failures \cup
    { [kind |-> "docs", docs |-> docs, numFound |-> Len(docs)] :
        docs \in SeqsUpTo(TagDocs, MaxDocs) }

-----------------------------------------------------------------------------
\* query_entities, lines 44-138.

DefaultLimit == 10000

\* Lines 70-73: params['rows']
RowsCallLimitOnly(query, limit) == limit

Rows(query, limit) ==
    IF "limit" \in DOMAIN query THEN query.limit ELSE limit

\* Lines 89-132: the result of one search_result, or the exception raised.
QueryResult(search_result, query) ==
    LET l == Label(search_result)
    IN  IF l.exc # "none" THEN [exc |-> l.exc]
        ELSE IF "id" \notin DOMAIN search_result THEN [exc |-> "KeyError"]
        ELSE IF "score" \notin DOMAIN search_result THEN [exc |-> "KeyError"]
        ELSE [exc |-> "none",
              result |-> [id |-> search_result.id,
                          name |-> l.label,
                          score |-> search_result.score,
                          match |-> Match(search_result, query),
                          type |-> Types(search_result)]]

\* Lines 85-134: results, or the first exception of the loop over the docs.
RECURSIVE QueryResultsReversed(_, _)
QueryResultsReversed(docs, query) ==
    IF docs = <<>> THEN [exc |-> "none", results |-> <<>>]
    ELSE LET r == QueryResult(Head(docs), query)
         IN  IF r.exc # "none" THEN [exc |-> r.exc, results |-> <<>>]
             ELSE LET rest == QueryResultsReversed(Tail(docs), query)
                  IN  IF rest.exc # "none" THEN rest
                      ELSE [exc |-> "none", results |-> rest.results \o <<r.result>>]

RECURSIVE QueryResults(_, _)
QueryResults(docs, query) ==
    IF docs = <<>> THEN [exc |-> "none", results |-> <<>>]
    ELSE LET r == QueryResult(Head(docs), query)
         IN  IF r.exc # "none" THEN [exc |-> r.exc, results |-> <<>>]
             ELSE LET rest == QueryResults(Tail(docs), query)
                  IN  IF rest.exc # "none" THEN rest
                      ELSE [exc |-> "none", results |-> <<r.result>> \o rest.results]

\* Lines 75-136 for one key: [exc, map] is the exception raised, if any, and
\* the local map as the iteration leaves it.
QueryOneSwallow(map, key, query, resp) ==
    IF resp.kind \in {"transport", "undecodable"}
    THEN [exc |-> "none", map |-> map]
    ELSE LET started == Put(map, key, [result |-> <<>>])
             rs == QueryResults(resp.docs, query.query)
         IN  IF resp.kind = "malformed" \/ rs.exc # "none"
             THEN [exc |-> "none", map |-> started]
             ELSE [exc |-> "none", map |-> Put(map, key, [result |-> rs.results])]

QueryOne(map, key, query, resp) ==
    IF resp.kind = "transport" THEN [exc |-> "RequestException", map |-> map]
    ELSE IF resp.kind = "undecodable" THEN [exc |-> "ValueError", map |-> map]
    ELSE LET started == Put(map, key, [result |-> <<>>])
             rs == QueryResults(resp.docs, query.query)
         IN  IF resp.kind = "malformed" THEN [exc |-> "KeyError", map |-> started]
             ELSE IF rs.exc # "none" THEN [exc |-> rs.exc, map |-> started]
             ELSE [exc |-> "none", map |-> Put(map, key, [result |-> rs.results])]

-----------------------------------------------------------------------------
\* dictionary_matcher, lines 146-219.

\* Lines 180-214: the result of one matched entity, or the exception raised.
TagResult(entity, additional_result_fields) ==
    LET l == Label(entity)
    IN  IF l.exc # "none" THEN [exc |-> l.exc]
        ELSE IF "id" \notin DOMAIN entity THEN [exc |-> "KeyError"]
        ELSE [exc |-> "none",
              result |->
                [f \in {"id", "name", "match", "type"}
                       \cup (additional_result_fields \cap DOMAIN entity) |->
                    CASE f = "id" -> entity.id
                      [] f = "name" -> l.label
                      [] f = "match" -> TRUE
                      [] f = "type" -> Types(entity)
                      [] OTHER -> entity[f]]]

\* Lines 178-217: the loop writes into the dict it was given; [exc, map] is
\* the exception that ended it, if any, and that dict as the loop leaves it.
RECURSIVE TagLoop(_, _, _)
TagLoop(map, docs, additional_result_fields) ==
    IF docs = <<>> THEN [exc |-> "none", map |-> map]
    ELSE LET r == TagResult(Head(docs), additional_result_fields)
         IN  IF r.exc # "none" THEN [exc |-> r.exc, map |-> map]
             ELSE TagLoop(Put(map, Head(docs).id, [result |-> <<r.result>>]),
                          Tail(docs), additional_result_fields)

\* Line 170: text.encode('utf-8') is evaluated before requests.post is
\* called and raises AttributeError on None, so no request leaves.
RequestSentAlways(text) == TRUE

RequestSent(text) == text # None

\* The whole call on the dict normalized_entities and the index's answer.
DictionaryMatcherDropsEarlier(text, map, additional_result_fields, resp) ==
    IF ~RequestSent(text) THEN [exc |-> "AttributeError", map |-> map]
    ELSE IF resp.kind # "docs" THEN [exc |-> "Error", map |-> map]
    ELSE TagLoop(EmptyMap, resp.docs, additional_result_fields)

DictionaryMatcher(text, map, additional_result_fields, resp) ==
    IF ~RequestSent(text) THEN [exc |-> "AttributeError", map |-> map]
    ELSE IF resp.kind = "transport" THEN [exc |-> "RequestException", map |-> map]
    ELSE IF resp.kind = "undecodable" THEN [exc |-> "ValueError", map |-> map]
    ELSE IF resp.kind = "malformed" THEN [exc |-> "KeyError", map |-> map]
    ELSE TagLoop(map, resp.docs, additional_result_fields)

-----------------------------------------------------------------------------
\* Arguments of entities(), lines 225.

QueryKeys == << <<"q", "1">>, <<"q", "2">>, <<"q", "3">> >>
TaggerNames == << "all_labels_ss_tag", "all_labels_stemming_en_ss_tag",
                  "all_labels_stemming_de_ss_tag" >>

\* One query of the queries dict, with and without its own limit.
QueryValues == { [query |-> Query], [query |-> Query, limit |-> 1] }

\* The queries dict in iteration order: a sequence of [key, query] with
\* distinct keys. The empty sequence stands for None and for {}.
QueriesArgs ==
    UNION { { [k \in 1..n |-> [key |-> QueryKeys[k], query |-> qs[k]]] :
                qs \in [1..n -> QueryValues] } : n \in 0..MaxQueries }

TaggersArgs == { SubSeq(TaggerNames, 1, n) : n \in 0..MaxTaggers }

LimitArgs == {DefaultLimit, 2}

\* The calls tried: with queries (text and taggers, which that path never
\* reads, at their defaults), and without queries.
EntitiesArgs ==
    { [queries |-> q, text |-> None, limit |-> l, taggers |-> SubSeq(TaggerNames, 1, 1),
       additional_result_fields |-> {}] :
        q \in QueriesArgs \ {<<>>}, l \in LimitArgs }
    \cup
    { [queries |-> <<>>, text |-> t, limit |-> DefaultLimit, taggers |-> tg,
       additional_result_fields |-> {}] :
        t \in {None, Text}, tg \in TaggersArgs }

-----------------------------------------------------------------------------
\* entities(), lines 225-242, one loop iteration at a time.

Idle == pc = "idle"

recvars == <<rec, qstr, resolved>>

\* Line 229: the call, up to the loop it enters. `if queries` sends a call
\* with queries to query_entities (line 46: a fresh map) and any other call
\* to the taggers loop (line 235: a fresh map); with no tagger to run the
\* call returns at once.
CallEntities(a) ==
    /\ Idle
    /\ arg' = a
    /\ i' = 0
    /\ normalized_entities' = EmptyMap
    /\ requests' = <<>>
    /\ received' = <<>>
    /\ stderr' = <<>>
    /\ result' = EmptyMap
    /\ pc' = IF a.queries # <<>> THEN "query_entities"
             ELSE IF a.taggers # <<>> THEN "taggers"
             ELSE "returned"
    /\ UNCHANGED <<dm_default, recvars>>

\* Lines 50-138: one iteration of the loop of query_entities. The request is
\* sent once; an exception leaves query_entities and entities (no handler on
\* the way); after the last key the map is returned.
QueryStep ==
    /\ pc = "query_entities"
    /\ LET q == arg.queries[i + 1]
           rows == Rows(q.query, arg.limit)
       IN  \E resp \in SearchAnswers(rows) :
             LET out == QueryOne(normalized_entities, q.key, q.query, resp)
             IN  /\ requests' = Append(requests, [to |-> "select", key |-> q.key, rows |-> rows])
                 /\ received' = Append(received, resp)
                 /\ normalized_entities' = out.map
                 /\ i' = i + 1
                 /\ IF out.exc # "none"
                    THEN pc' = "raised" /\ result' = EmptyMap
                    ELSE IF i + 1 = Len(arg.queries)
                    THEN pc' = "returned" /\ result' = out.map
                    ELSE pc' = "query_entities" /\ result' = EmptyMap
    /\ UNCHANGED <<arg, stderr, dm_default, recvars>>

\* Lines 236-242: one iteration of the taggers loop. dictionary_matcher works
\* on the dict of line 235 itself; an exception is written to sys.stderr and
\* the loop goes on; after the last tagger the map is returned.
TaggerStep ==
    /\ pc = "taggers"
    /\ LET tagger == arg.taggers[i + 1]
       IN  \E resp \in (IF RequestSent(arg.text) THEN TagAnswers ELSE {Failure("unsent")}) :
             LET out == DictionaryMatcher(arg.text, normalized_entities,
                                          arg.additional_result_fields, resp)
             IN  /\ requests' = IF arg.text = None THEN requests
                                ELSE Append(requests, [to |-> tagger, key |-> arg.text,
                                                       rows |-> arg.limit])
                 /\ received' = Append(received, resp)
                 /\ normalized_entities' = out.map
                 /\ stderr' = IF out.exc # "none" THEN Append(stderr, tagger) ELSE stderr
                 /\ i' = i + 1
                 /\ IF i + 1 = Len(arg.taggers)
                    THEN pc' = "returned" /\ result' = out.map
                    ELSE pc' = "taggers" /\ result' = EmptyMap
    /\ UNCHANGED <<arg, dm_default, recvars>>

NoArg == [queries |-> <<>>, text |-> None, limit |-> DefaultLimit, taggers |-> <<>>,
          additional_result_fields |-> {}]

Init ==
    /\ pc = "idle"
    /\ arg = NoArg
    /\ i = 0
    /\ normalized_entities = EmptyMap
    /\ requests = <<>>
    /\ received = <<>>
    /\ stderr = <<>>
    /\ result = EmptyMap
    /\ dm_default = EmptyMap
    /\ rec = [id |-> E1]
    /\ qstr = Query
    /\ resolved = [by |-> "none"]

Next ==
    \/ \E a \in EntitiesArgs : CallEntities(a)
    \/ QueryStep
    \/ TaggerStep

Spec == Init /\ [][Next]_vars

-----------------------------------------------------------------------------
\* What the index answered, read off the responses alone.

OnTaggers == pc \in {"taggers", "returned"} /\ arg.queries = <<>>
OnQueries == pc \in {"query_entities", "returned", "raised"} /\ arg.queries # <<>>

\* A document the tagger handler can be expected to return: it has its id.
WellFormed(doc) == "id" \in DOMAIN doc

\* The k-th tagger answered, and with well-formed documents only.
Succeeded(k) ==
    /\ received[k].kind = "docs"
    /\ \A n \in 1..Len(received[k].docs) : WellFormed(received[k].docs[n])

\* The ids the k-th tagger tagged.
IdsOf(k) ==
    { received[k].docs[n].id :
        n \in {m \in 1..Len(received[k].docs) : WellFormed(received[k].docs[m])} }

Max(S) == CHOOSE x \in S : \A y \in S : y <= x

\* The entry the k-th tagger leaves for an id it tagged: the result of its
\* last document with that id.
EntryOf(k, id) ==
    LET docs == received[k].docs
        n == Max({m \in 1..Len(docs) : WellFormed(docs[m]) /\ docs[m].id = id})
    IN  [result |-> <<TagResult(docs[n], arg.additional_result_fields).result>>]

\* Some tagger invoked after the k-th was answered with a document of that id.
WrittenLater(k, id) == \E j \in (k + 1)..Len(received) : id \in IdsOf(j)

C2_FailedTaggerLeavesMapUnchanged ==
    [][(pc = "taggers" /\ Len(stderr') > Len(stderr))
          => normalized_entities' = normalized_entities]_vars

\* C3: on return from the taggers loop the keys of the map are the union of
\* the ids tagged by the taggers that succeeded, and each entry is the one
\* of the latest such tagger that tagged its id.
LatestEntry(id) ==
    EntryOf(Max({j \in 1..Len(received) : Succeeded(j) /\ id \in IdsOf(j)}), id)

C3_MapIsUnionOfSuccessfulTaggers ==
    (OnTaggers /\ pc = "returned") =>
        /\ DOMAIN result = UNION {IdsOf(k) : k \in {j \in 1..i : Succeeded(j)}}
        /\ \A id \in DOMAIN result : result[id] = LatestEntry(id)

\* C4: a request or a response decoding that fails in query_entities() ends
\* the call with the error: it is the last request of the call, sent once,
\* nothing is returned, and the local map has no entry for its key.
C4_QueryFailurePropagates ==
    OnQueries =>
        \A k \in 1..Len(received) :
            received[k].kind # "docs" =>
                /\ pc = "raised"
                /\ result = EmptyMap
                /\ k = Len(received) /\ Len(requests) = k
                /\ \A j \in 1..(k - 1) : requests[j].key # requests[k].key
                /\ received[k].kind \in {"transport", "undecodable"}
                      => requests[k].key \notin DOMAIN normalized_entities

C4_Witness ==
    /\ OnQueries /\ pc = "raised" /\ Len(arg.queries) = 2 /\ i = 2
    /\ received[1].kind = "docs" /\ Len(received[1].docs) = 1
    /\ received[2].kind = "undecodable"
    /\ DOMAIN normalized_entities = {arg.queries[1].key}

\* C6: entities() with neither queries nor text sends no request, does not
\* raise, and returns the empty map, whatever the taggers list.
C6_NoQueriesNoTextGivesEmptyMap ==
    (arg.queries = <<>> /\ arg.text = None) =>
        /\ pc # "raised"
        /\ requests = <<>>
        /\ normalized_entities = EmptyMap
        /\ result = EmptyMap

C6_Witness ==
    /\ pc = "returned" /\ arg.queries = <<>> /\ arg.text = None
    /\ Len(arg.taggers) = 2 /\ i = 2 /\ Len(stderr) = 2
    /\ result = EmptyMap

\* C9: the rows sent for a key is the query's own limit when it has one and
\* the limit of the call otherwise, and the result list of the key is no
\* longer than that.
Cap(k) ==
    IF "limit" \in DOMAIN arg.queries[k].query
    THEN arg.queries[k].query.limit ELSE arg.limit

C9_RowCap ==
    OnQueries =>
        /\ \A k \in 1..Len(requests) : requests[k].rows = Cap(k)
        /\ \A k \in 1..Len(arg.queries) :
              arg.queries[k].key \in DOMAIN normalized_entities =>
                  Len(normalized_entities[arg.queries[k].key].result) <= Cap(k)
        /\ pc = "returned" => result = normalized_entities

C9_Witness ==
    /\ OnQueries /\ pc = "returned"
    /\ \E k \in 1..Len(arg.queries) :
          /\ Cap(k) = 1 /\ arg.limit = DefaultLimit
          /\ received[k].numFound = 2
          /\ Len(result[arg.queries[k].key].result) = 1
    /\ \E k \in 1..Len(arg.queries) :
          /\ Cap(k) = DefaultLimit
          /\ Len(result[arg.queries[k].key].result) = 2

\* C10: the map query_entities() returns has one entry per query key, and
\* the result list of a key has one entity per document of the key's
\* response, in the response's order, with the document's id.
C10_OneEntityPerRecord ==
    (OnQueries /\ pc = "returned") =>
        /\ DOMAIN result = {arg.queries[k].key : k \in 1..Len(arg.queries)}
        /\ \A k \in 1..Len(arg.queries) :
              LET rs == result[arg.queries[k].key].result
                  docs == received[k].docs
              IN  /\ Len(rs) = Len(docs)
                  /\ \A n \in 1..Len(docs) : rs[n].id = docs[n].id

C10_Witness ==
    /\ OnQueries /\ pc = "returned" /\ Len(arg.queries) = 2
    /\ received[1].docs = <<>>
    /\ result[arg.queries[1].key].result = <<>>
    /\ Len(received[2].docs) = 2
    /\ received[2].docs[1].id = E2 /\ received[2].docs[2].id = E1
    /\ result[arg.queries[2].key].result[1].id = E2
    /\ result[arg.queries[2].key].result[2].id = E1

-----------------------------------------------------------------------------
\* Direct calls of dictionary_matcher() and query_entities(), each taken as
\* one step. The def statement of line 146 builds the default value of
\* normalized_entities once: every call that passes no normalized_entities
\* works on that one dict, dm_default, and returns it.

\* A dict a caller may pass as normalized_entities.
PassedMaps == { EmptyMap, Put(EmptyMap, E2, [result |-> <<>>]) }

DirectDictionaryMatcher(text, given, passed, resp) ==
    LET map == IF given THEN passed ELSE dm_default
        out == DictionaryMatcher(text, map, {}, resp)
    IN  /\ arg' = [call |-> "dictionary_matcher", text |-> text, given |-> given,
                   normalized_entities |-> passed, additional_result_fields |-> {}]
        /\ requests' = IF RequestSent(text)
                       THEN <<[to |-> TaggerNames[1], key |-> text, rows |-> DefaultLimit]>>
                       ELSE <<>>
        /\ received' = <<resp>>
        /\ normalized_entities' = out.map
        /\ dm_default' = IF given THEN dm_default ELSE out.map
        /\ pc' = IF out.exc # "none" THEN "raised" ELSE "returned"
        /\ result' = IF out.exc # "none" THEN EmptyMap ELSE out.map
        /\ UNCHANGED <<i, stderr, recvars>>

\* query_entities() with one key: line 46 rebinds normalized_entities to a
\* new dict, whatever was passed.
DirectQueryEntities(q, limit, passed, resp) ==
    LET out == QueryOne(EmptyMap, q.key, q.query, resp)
    IN  /\ arg' = [call |-> "query_entities", queries |-> <<q>>, limit |-> limit,
                   given |-> TRUE, normalized_entities |-> passed]
        /\ requests' = <<[to |-> "select", key |-> q.key, rows |-> Rows(q.query, limit)]>>
        /\ received' = <<resp>>
        /\ normalized_entities' = out.map
        /\ pc' = IF out.exc # "none" THEN "raised" ELSE "returned"
        /\ result' = IF out.exc # "none" THEN EmptyMap ELSE out.map
        /\ UNCHANGED <<i, stderr, dm_default, recvars>>

NextDirect ==
    \/ \E text \in {None, Text}, given \in BOOLEAN, passed \in PassedMaps,
          resp \in TagAnswers :
            /\ given \/ passed = EmptyMap
            /\ RequestSent(text) \/ resp = Failure("transport")
            /\ DirectDictionaryMatcher(text, given, passed, resp)
    \/ \E qs \in {a \in QueriesArgs : Len(a) = 1}, limit \in LimitArgs,
          passed \in PassedMaps :
            \E resp \in SearchAnswers(Rows(qs[1].query, limit)) :
                DirectQueryEntities(qs[1], limit, passed, resp)

SpecDirect == Init /\ [][NextDirect]_vars

\* C5: the map a call returns depends on the call's arguments and on the
\* index's answer alone: dictionary_matcher() called without
\* normalized_entities returns what it builds from an empty map, and
\* query_entities() what it builds from an empty map.
C5_NoStateSharedAcrossCalls ==
    (pc = "returned" /\ ~arg.given) =>
        result = DictionaryMatcher(arg.text, EmptyMap, arg.additional_result_fields,
                                   received[1]).map

-----------------------------------------------------------------------------
\* Normalisation of one index record, on the two paths.

Strings == { EmptyStr, <<"P">>, <<"p">>, <<"P", "r">> }

\* Values of a multi-valued field: no value, an empty value, one value, two.
ListValues == { <<>>, <<EmptyStr>>, << <<"P">> >>, << <<"P", "r">>, <<"p">> >> }

LabelFields == {"preferred_label_s", "skos_prefLabel_ss", "label_ss", "skos_altLabel_ss"}
OtherFields == {fields[n] : n \in 1..Len(fields)} \ {"id", "score"}

ValuesFor(field) == IF IsList(field) THEN ListValues ELSE Strings

\* The records of S, and those with the field added.
WithField(S, field) ==
    S \cup { Put(r, field, v) : r \in S, v \in ValuesFor(field) }

\* The records of S with up to n more fields of OtherFields.
RECURSIVE WithFields(_, _)
WithFields(S, n) ==
    IF n = 0 THEN S
    ELSE WithFields(
           S \cup UNION { { Put(r, f, v) : v \in ValuesFor(f) } :
                            r \in S, f \in OtherFields }, n - 1)

\* Every combination of the four label fields on a record with an id, and
\* records with up to MaxFields fields of any kind, one of whose ids is a
\* label-like string.
Records ==
    WithField(WithField(WithField(WithField(
        { [id |-> E1, score |-> 1] },
        "preferred_label_s"), "skos_prefLabel_ss"), "label_ss"), "skos_altLabel_ss")
    \cup
    WithFields({ [id |-> E1, score |-> 1], [id |-> <<"P">>, score |-> 1] }, MaxFields)

InitRecord ==
    /\ pc = "idle"
    /\ arg = NoArg
    /\ i = 0
    /\ normalized_entities = EmptyMap
    /\ requests = <<>>
    /\ received = <<>>
    /\ stderr = <<>>
    /\ result = EmptyMap
    /\ dm_default = EmptyMap
    /\ rec \in Records
    /\ qstr \in Strings
    /\ resolved = [by |-> "none"]

\* Lines 87-134 for the record rec of a response to the query qstr.
ResolveQuery ==
    /\ resolved.by = "none"
    /\ resolved' = [by |-> "query_entities", out |-> QueryResult(rec, qstr)]
    /\ UNCHANGED <<pc, arg, i, normalized_entities, requests, received, stderr,
                   result, dm_default, rec, qstr>>

\* Lines 178-214 for the record rec of a tagger's response.
ResolveTag ==
    /\ resolved.by = "none"
    /\ resolved' = [by |-> "dictionary_matcher", out |-> TagResult(rec, {})]
    /\ UNCHANGED <<pc, arg, i, normalized_entities, requests, received, stderr,
                   result, dm_default, rec, qstr>>

NextRecord == ResolveQuery \/ ResolveTag

SpecRecord == InitRecord /\ [][NextRecord]_vars

\* The first entry of a label list, when the field is there with an entry.
Available(record) ==
    LET first(f) == IF f \in DOMAIN record /\ record[f] # <<>>
                    THEN <<record[f][1]>> ELSE <<>>
        all == (IF "preferred_label_s" \in DOMAIN record
                THEN <<record.preferred_label_s>> ELSE <<>>)
               \o first("skos_prefLabel_ss") \o first("label_ss")
               \o first("skos_altLabel_ss") \o <<record.id>>
    IN  SelectSeq(all, LAMBDA v : v # EmptyStr)

\* C7: every record with an id resolves, on both paths, to a non-empty name:
\* the first non-empty of preferred_label_s, the first entries of
\* skos_prefLabel_ss, label_ss and skos_altLabel_ss, and the id.
C7_NameIsFirstAvailableLabel ==
    (resolved.by # "none" /\ "id" \in DOMAIN rec) =>
        /\ resolved.out.exc = "none"
        /\ resolved.out.result.name # EmptyStr
        /\ resolved.out.result.name = Head(Available(rec))

\* The same, for the records none of whose label fields is an empty list.
NoEmptyLabelList(record) ==
    \A f \in LabelFields \cap DOMAIN record : IsList(f) => record[f] # <<>>

C7_NameWhenNoLabelListIsEmpty ==
    (resolved.by # "none" /\ "id" \in DOMAIN rec /\ NoEmptyLabelList(rec)) =>
        /\ resolved.out.exc = "none"
        /\ resolved.out.result.name # EmptyStr
        /\ resolved.out.result.name = Head(Available(rec))

\* Two strings equal but for the case of their letters.
SameLetter(c, d) ==
    \/ c = d
    \/ {c, d} = {"P", "p"}
    \/ {c, d} = {"R", "r"}

EqualIgnoringCase(a, b) ==
    /\ Len(a) = Len(b)
    /\ \A k \in 1..Len(a) : SameLetter(a[k], b[k])

\* C8: on the query path match is true exactly when some value of some field
\* of the record other than score equals the query string but for case, a
\* scalar field counting as one value.
C8_MatchIffSomeValueEqualsQuery ==
    (resolved.by = "query_entities" /\ resolved.out.exc = "none") =>
        (resolved.out.result.match <=>
            \E f \in DOMAIN rec \ {"score"} :
                IF IsList(f)
                THEN \E k \in 1..Len(rec[f]) : EqualIgnoringCase(rec[f][k], qstr)
                ELSE EqualIgnoringCase(rec[f], qstr))

C8_Witness ==
    /\ resolved.by = "query_entities" /\ resolved.out.exc = "none"
    /\ resolved.out.result.match
    /\ qstr = <<"P">>
    /\ DOMAIN rec = {"id", "score", "skos_hiddenLabel_txt"}
    /\ rec.skos_hiddenLabel_txt = << <<"P", "r">>, <<"p">> >>

====
